---- MODULE Spec2Model ----
(***************************************************************************)
(* A model of Material.py, the label printing application: the label       *)
(* layout engine (LabelRenderer), the label database (LabelDB) and the     *)
(* admin and print handlers of the GUI (App).                              *)
(*                                                                         *)
(* Text is modelled as a sequence of one-character strings, so that        *)
(* str.strip, str.split, str.splitlines and str.replace are computed       *)
(* character by character as Python computes them.                         *)
(*                                                                         *)
(* Lengths of the label content are in PostScript points, as in the        *)
(* source.  A string width is kept in thousandths of a point (the AFM      *)
(* glyph widths are per 1000 units of font size), a band height in         *)
(* hundredths of a point (DESC_LINE_SPACING and DESC_TOP_FRACTION have two *)
(* decimals): every comparison of the source is then one of integers.      *)
(* The source compares IEEE doubles; the model compares the exact values.  *)
(***************************************************************************)
EXTENDS Integers, Sequences, FiniteSets, TLC

VARIABLES
    renderer,   \* the LabelRenderer object: its fields
    call,       \* layout engine: the pending or finished call of a layout function
    pdf,        \* the PDF file written by the last render_pdf
    db,         \* labels.db: the rows of table labels and its AUTOINCREMENT sequence
    label_var,  \* App.label_var, the text of the material combobox
    values,     \* App.combo["values"], the names offered by the combobox
    status_var, \* App.status_var, the status line
    scrap_var,  \* App.scrap_var
    regrind_var,\* App.regrind_var
    copies_var, \* App.copies_var
    wins,       \* the admin windows (Toplevel) that are open
    grab,       \* the window that holds the input grab, "" when none does
    tree,       \* the rows shown by the Treeview of the list window
    edit_id,    \* the row id bound to the Save Changes button of the edit window
    authed,     \* history: a password with the admin digest was entered in this run
    last,       \* the last handler that ran, its inputs and what it showed
    platform,   \* platform.system().lower()
    copies_mode,\* the module's SUMATRA_COPIES_MODE
    jobs,       \* the temporary PDF files made by _print_selected, in order
    threads     \* the threading.Timer threads started, in order

layoutvars == <<renderer, call, pdf>>
dbvars     == <<db, label_var, values, status_var>>
adminvars  == <<wins, grab, tree, edit_id, authed>>
printvars  == <<scrap_var, regrind_var, copies_var, platform, copies_mode, jobs,
                threads>>
appvars    == <<dbvars, adminvars, printvars, last>>
vars       == <<layoutvars, appvars>>

(***************************************************************************)
(* Bounds of the model.                                                    *)
(***************************************************************************)
MaxTextLen == 4     \* characters of a description given to the wrapping functions
MaxCodeLen == 12    \* characters of a label code given to render_pdf

(***************************************************************************)
(* Program constants (Material.py lines 46-55).                            *)
(***************************************************************************)
inch == 72                      \* reportlab.lib.units.inch, points per inch
LABEL_WIDTH_IN == 4
LABEL_HEIGHT_IN == 6
MARGIN_IN_PCT == 25             \* MARGIN_IN = 0.25, in hundredths of an inch
CODE_FONT_SIZE == 220
CODE_SIDE_MARGIN_IN_PCT == 8    \* CODE_SIDE_MARGIN_IN = 0.08, in hundredths of an inch
SUMATRA_COPIES_MODE == "loop"   \* the mode the module is shipped with
DEFAULT_MIN_SIZE == 18
CODE_MIN_SIZE == 28             \* min_size=28 in _draw_label_content
MAX_DESC_FONT_SIZE == 52
MIN_DESC_FONT_SIZE == 28
UNDERLINE_GAP_PT == 3
DESC_TOP_FRACTION_PCT == 60     \* DESC_TOP_FRACTION = 0.60, in hundredths
DESC_LINE_SPACING_PCT == 122    \* DESC_LINE_SPACING = 1.22, in hundredths

(***************************************************************************)
(* Python string operations.                                               *)
(***************************************************************************)
WS == {" ", "\n", "\r"}         \* the whitespace characters that occur in the model

\* str.strip(): the text without its leading and trailing whitespace
RECURSIVE lstrip(_)
lstrip(s) == IF s # <<>> /\ Head(s) \in WS THEN lstrip(Tail(s)) ELSE s

RECURSIVE rstrip(_)
rstrip(s) == IF s # <<>> /\ s[Len(s)] \in WS THEN rstrip(SubSeq(s, 1, Len(s) - 1)) ELSE s

\* str.lstrip in place of str.strip
strip_leading(s) == lstrip(s)

strip(s) == rstrip(lstrip(s))

\* str.replace("\r", "")
replace_cr(s) == SelectSeq(s, LAMBDA c : c # "\r")

\* the length of the longest prefix of s made of characters outside stop
RECURSIVE span(_, _)
span(s, stop) == IF s = <<>> \/ Head(s) \in stop THEN 0 ELSE 1 + span(Tail(s), stop)

\* str.split(sep) for a one-character sep: the fields between the separators,
\* empty fields kept; a text without sep is one field
RECURSIVE split_sep(_, _)
split_sep(s, sep) ==
    LET k == span(s, {sep})
    IN  IF k = Len(s) THEN <<s>>
        ELSE <<SubSeq(s, 1, k)>> \o split_sep(SubSeq(s, k + 2, Len(s)), sep)

\* str.split(): the maximal runs of non-whitespace characters, in order
RECURSIVE split(_)
split(s) ==
    LET t == lstrip(s)
        k == span(t, WS)
    IN  IF t = <<>> THEN <<>>
        ELSE <<SubSeq(t, 1, k)>> \o split(SubSeq(t, k + 1, Len(t)))

(***************************************************************************)
(* canv.stringWidth(text, fontName, fontSize) of reportlab for the         *)
(* standard fonts: the sum of the AFM glyph widths times the size, without *)
(* kerning.  Glyph widths are those of the Adobe Times-Bold and            *)
(* Times-Roman metrics, per 1000 units; a control character has no glyph.  *)
(***************************************************************************)
code_font_name == "Times-Bold"
desc_font_name == "Times-Roman"

glyphWidth(font, c) ==
    IF font = code_font_name
    THEN CASE c = " " -> 250 [] c = "W" -> 1000 [] c = "i" -> 278
           [] c = "a" -> 500 [] c = "A" -> 722  [] c = "0" -> 500
           [] c = "S" -> 556 [] c = "c" -> 444  [] c = "r" -> 444
           [] c = "p" -> 556 [] c = "R" -> 722  [] c = "e" -> 444
           [] c = "g" -> 500 [] c = "n" -> 556  [] c = "d" -> 556
           [] c = "b" -> 556
           [] OTHER -> 0
    ELSE CASE c = " " -> 250 [] c = "W" -> 944  [] c = "i" -> 278
           [] c = "a" -> 444 [] c = "A" -> 722  [] c = "0" -> 500
           [] c = "b" -> 500 [] c = "d" -> 500  [] c = "e" -> 444
           [] OTHER -> 0

RECURSIVE glyphSum(_, _)
glyphSum(text, font) ==
    IF text = <<>> THEN 0 ELSE glyphWidth(font, Head(text)) + glyphSum(Tail(text), font)

\* in thousandths of a point
stringWidth(text, font, size) == glyphSum(text, font) * size

(***************************************************************************)
(* LabelRenderer: text fitting.                                            *)
(***************************************************************************)
\* the while loop of _fit_font over the sizes hi, hi - 1, ..., lo, tried in that
\* order: the first size at which the text fits, 0 when the loop ends without one.
\* The descending scan is split in two halves, the upper half first, so that the
\* depth of the evaluation stays logarithmic in the number of sizes.
RECURSIVE _fit_font_loop(_, _, _, _)
_fit_font_loop(text, target_width, hi, lo) ==
    IF hi < lo THEN 0
    ELSE IF hi = lo
    THEN IF stringWidth(text, code_font_name, hi) <= target_width * 1000 THEN hi ELSE 0
    ELSE LET mid == (lo + hi) \div 2
             upper == _fit_font_loop(text, target_width, hi, mid + 1)
         IN  IF upper # 0 THEN upper ELSE _fit_font_loop(text, target_width, mid, lo)

\* a variant of _fit_font that decrements after the test of the next size:
\* it returns the size above the first one that fits
_fit_font_off_by_one(text, target_width, max_size, min_size) ==
    LET size == _fit_font_loop(text, target_width, max_size, min_size)
    IN  IF size = 0 THEN min_size ELSE IF size < max_size THEN size + 1 ELSE size

\* a variant of _fit_font whose loop starts one size below max_size
_fit_font_below_max(text, target_width, max_size, min_size) ==
    LET size == _fit_font_loop(text, target_width, max_size - 1, min_size)
    IN  IF size # 0 THEN size ELSE min_size

_fit_font(text, target_width, max_size, min_size) ==
    LET size == _fit_font_loop(text, target_width, max_size, min_size)
    IN  IF size # 0 THEN size ELSE min_size

\* a variant of the loop of _wrap_text that measures the word w, not the line test
RECURSIVE _wrap_text_loop_measuring_word(_, _, _, _, _, _)
_wrap_text_loop_measuring_word(lines, cur, words, font_name, font_size, max_width) ==
    IF words = <<>> THEN Append(lines, cur)
    ELSE LET w == Head(words)
             test == cur \o <<" ">> \o w
         IN  IF stringWidth(w, font_name, font_size) <= max_width * 1000
             THEN _wrap_text_loop_measuring_word(lines, test, Tail(words),
                                                 font_name, font_size, max_width)
             ELSE _wrap_text_loop_measuring_word(Append(lines, cur), w, Tail(words),
                                                 font_name, font_size, max_width)

\* the for loop of _wrap_text over the words after the first:
\* lines finished so far, the line being filled, the words left
RECURSIVE _wrap_text_loop(_, _, _, _, _, _)
_wrap_text_loop(lines, cur, words, font_name, font_size, max_width) ==
    IF words = <<>> THEN Append(lines, cur)
    ELSE LET w == Head(words)
             test == cur \o <<" ">> \o w
         IN  IF stringWidth(test, font_name, font_size) <= max_width * 1000
             THEN _wrap_text_loop(lines, test, Tail(words), font_name, font_size, max_width)
             ELSE _wrap_text_loop(Append(lines, cur), w, Tail(words),
                                  font_name, font_size, max_width)

_wrap_text(text, font_name, font_size, max_width) ==
    LET words == split(replace_cr(text))
    IN  IF words = <<>> THEN << <<>> >>
        ELSE _wrap_text_loop(<<>>, Head(words), Tail(words), font_name, font_size, max_width)

\* the lines of a paragraph at one size: every explicit line wrapped, in order
RECURSIVE _wrap_raws(_, _, _)
_wrap_raws(raws, size, max_width) ==
    IF raws = <<>> THEN <<>>
    ELSE _wrap_text(Head(raws), desc_font_name, size, max_width)
         \o _wrap_raws(Tail(raws), size, max_width)

_paragraph_lines(text, size, max_width) ==
    _wrap_raws(split_sep(replace_cr(text), "\n"), size, max_width)

\* the while loop of _fit_paragraph, entered with the given size; max_height is
\* in hundredths of a point
RECURSIVE _fit_paragraph_loop(_, _, _, _)
_fit_paragraph_loop(text, max_width, max_height, size) ==
    IF size >= MIN_DESC_FONT_SIZE
    THEN LET lines == _paragraph_lines(text, size, max_width)
         IN  IF Len(lines) * size * DESC_LINE_SPACING_PCT <= max_height
             THEN [size |-> size, lines |-> lines]
             ELSE _fit_paragraph_loop(text, max_width, max_height, size - 1)
    ELSE [size |-> MIN_DESC_FONT_SIZE,
          lines |-> _paragraph_lines(text, MIN_DESC_FONT_SIZE, max_width)]

\* a variant of _fit_paragraph whose line height leaves out DESC_LINE_SPACING
RECURSIVE _fit_paragraph_loop_unspaced(_, _, _, _)
_fit_paragraph_loop_unspaced(text, max_width, max_height, size) ==
    IF size >= MIN_DESC_FONT_SIZE
    THEN LET lines == _paragraph_lines(text, size, max_width)
         IN  IF Len(lines) * size * 100 <= max_height
             THEN [size |-> size, lines |-> lines]
             ELSE _fit_paragraph_loop_unspaced(text, max_width, max_height, size - 1)
    ELSE [size |-> MIN_DESC_FONT_SIZE,
          lines |-> _paragraph_lines(text, MIN_DESC_FONT_SIZE, max_width)]

_fit_paragraph_unspaced(text, max_width, max_height) ==
    _fit_paragraph_loop_unspaced(text, max_width, max_height, MAX_DESC_FONT_SIZE)

\* a variant of _fit_paragraph that starts its loop at the floor size
_fit_paragraph_from_floor(text, max_width, max_height) ==
    _fit_paragraph_loop(text, max_width, max_height, MIN_DESC_FONT_SIZE)

_fit_paragraph(text, max_width, max_height) ==
    _fit_paragraph_loop(text, max_width, max_height, MAX_DESC_FONT_SIZE)

(***************************************************************************)
(* LabelRenderer.__init__ and _draw_label_content.  What the function      *)
(* draws is returned as a record: the code with its size and width, the    *)
(* secondary stamp (empty when none is drawn) with its size, the baselines *)
(* (in tenths of a point, ascent = 0.80 * size) and the description lines. *)
(***************************************************************************)
LabelRenderer(width_in, height_in, margin_in_pct) ==
    [content_w_pt        |-> width_in * inch,
     content_h_pt        |-> height_in * inch,
     margin_pt           |-> (margin_in_pct * inch) \div 100,
     code_side_margin_pt |-> (CODE_SIDE_MARGIN_IN_PCT * inch) \div 100,
     regrind_active      |-> FALSE]

\* a variant of _draw_label_content whose stamp does not read regrind_active
_draw_label_content_scrap_only(self, code, description, scrap) ==
    LET w == self.content_w_pt
        h == self.content_h_pt
        m == self.margin_pt
        max_code_width == w - (2 * self.code_side_margin_pt)
        code_size == _fit_font(code, max_code_width, CODE_FONT_SIZE, CODE_MIN_SIZE)
        code_y == (h - 1) * 10 - 8 * code_size
        underline_y == code_y - UNDERLINE_GAP_PT * 10
        secondary_text == "Scrap"
        block_w == w - 2 * m
        max_desc_height == h * DESC_TOP_FRACTION_PCT - m * 100
        fitted == _fit_paragraph(description, block_w, max_desc_height)
    IN  [code               |-> code,
         code_size          |-> code_size,
         max_code_width     |-> max_code_width,
         code_text_width    |-> stringWidth(code, code_font_name, code_size),
         code_y             |-> code_y,
         underline_y        |-> underline_y,
         secondary_text     |-> IF scrap THEN secondary_text ELSE "",
         secondary_size     |-> IF scrap THEN code_size ELSE 0,
         secondary_baseline |-> IF scrap
                                THEN underline_y - (UNDERLINE_GAP_PT * 10 + 8 * code_size)
                                ELSE 0,
         block_w            |-> block_w,
         max_desc_height    |-> max_desc_height,
         desc_size          |-> fitted.size,
         lines              |-> fitted.lines]

_draw_label_content(self, code, description, scrap) ==
    LET w == self.content_w_pt
        h == self.content_h_pt
        m == self.margin_pt
        max_code_width == w - (2 * self.code_side_margin_pt)
        code_size == _fit_font(code, max_code_width, CODE_FONT_SIZE, CODE_MIN_SIZE)
        code_y == (h - 1) * 10 - 8 * code_size
        underline_y == code_y - UNDERLINE_GAP_PT * 10
        secondary_text == IF self.regrind_active THEN "Regrind" ELSE "Scrap"
        block_w == w - 2 * m
        max_desc_height == h * DESC_TOP_FRACTION_PCT - m * 100
        fitted == _fit_paragraph(description, block_w, max_desc_height)
    IN  [code               |-> code,
         code_size          |-> code_size,
         max_code_width     |-> max_code_width,
         code_text_width    |-> stringWidth(code, code_font_name, code_size),
         code_y             |-> code_y,
         underline_y        |-> underline_y,
         secondary_text     |-> IF scrap THEN secondary_text ELSE "",
         secondary_size     |-> IF scrap THEN code_size ELSE 0,
         secondary_baseline |-> IF scrap
                                THEN underline_y - (UNDERLINE_GAP_PT * 10 + 8 * code_size)
                                ELSE 0,
         block_w            |-> block_w,
         max_desc_height    |-> max_desc_height,
         desc_size          |-> fitted.size,
         lines              |-> fitted.lines]

(***************************************************************************)
(* Exact fractions for the page fit of render_pdf: [n, d] with d > 0, in   *)
(* lowest terms.                                                           *)
(***************************************************************************)
Abs(i) == IF i < 0 THEN -i ELSE i

RECURSIVE GCD(_, _)
GCD(a, b) == IF b = 0 THEN a ELSE GCD(b, a % b)

Frac(n, d) ==
    LET g == GCD(Abs(n), d)
    IN  [n |-> n \div g, d |-> d \div g]

FInt(i) == [n |-> i, d |-> 1]
FMul(a, b) == Frac(a.n * b.n, a.d * b.d)
FAdd(a, b) == Frac(a.n * b.d + b.n * a.d, a.d * b.d)
FSub(a, b) == Frac(a.n * b.d - b.n * a.d, a.d * b.d)
FHalf(a) == Frac(a.n, 2 * a.d)
FLess(a, b) == a.n * b.d < b.n * a.d
FLeq(a, b) == a.n * b.d <= b.n * a.d
FMin(a, b) == IF FLess(b, a) THEN b ELSE a

(***************************************************************************)
(* render_pdf.  The page geometry is in units of 1/508 inch (0.05 mm), in  *)
(* which the Letter and A4 pages, the host margin and a content area of    *)
(* whole inches are all integers; scale factors and the comparison of      *)
(* areas do not depend on the unit.                                        *)
(***************************************************************************)
inchU == 508                    \* page units per inch, in place of inch = 72.0

HOST_PAPER_SIZES(name) ==
    IF name = "A4"
    THEN <<(2100 * inchU) \div 254, (2970 * inchU) \div 254>>   \* 210/25.4, 297/25.4 inch
    ELSE <<(85 * inchU) \div 10, 11 * inchU>>                   \* .get(name, Letter)

Max(a, b) == IF a > b THEN a ELSE b

\* the names render_pdf binds before best_fit is defined
_page(self, host_name, host_scale_mode) ==
    LET host == HOST_PAPER_SIZES(host_name)
        host_margin_pt == (25 * inchU) \div 100
    IN  [host_w  |-> host[1],
         host_h  |-> host[2],
         avail_w |-> Max(1, host[1] - 2 * host_margin_pt),
         avail_h |-> Max(1, host[2] - 2 * host_margin_pt),
         cw      |-> (self.content_w_pt * inchU) \div inch,
         ch      |-> (self.content_h_pt * inchU) \div inch,
         fit     |-> host_scale_mode = "fit"]

\* best_fit(unrotated): the scale, the offsets and the scaled width and height
best_fit(p, unrotated) ==
    IF unrotated
    THEN LET s == IF p.fit THEN FMin(Frac(p.avail_w, p.cw), Frac(p.avail_h, p.ch))
                  ELSE FInt(1)
         IN  [s |-> s,
              x |-> FHalf(FSub(FInt(p.host_w), FMul(FInt(p.cw), s))),
              y |-> FHalf(FSub(FInt(p.host_h), FMul(FInt(p.ch), s))),
              w |-> FMul(FInt(p.cw), s),
              h |-> FMul(FInt(p.ch), s)]
    ELSE LET s == IF p.fit THEN FMin(Frac(p.avail_w, p.ch), Frac(p.avail_h, p.cw))
                  ELSE FInt(1)
         IN  [s |-> s,
              x |-> FHalf(FSub(FInt(p.host_w), FMul(FInt(p.ch), s))),
              y |-> FHalf(FSub(FInt(p.host_h), FMul(FInt(p.cw), s))),
              w |-> FMul(FInt(p.ch), s),
              h |-> FMul(FInt(p.cw), s)]

\* a variant of the orientation choice that rotates on a tie: (w1 * h1) >= (w0 * h0)
_rotate_on_tie(f0, f1) == FLeq(FMul(f0.w, f0.h), FMul(f1.w, f1.h))

\* rotate = (w1 * h1) > (w0 * h0)
_rotate(f0, f1) == FLess(FMul(f0.w, f0.h), FMul(f1.w, f1.h))

\* the rectangle of the page that the content area is mapped to by the
\* transformations of the branch taken:
\*   translate(x0, y0); scale(s0, s0)
\*   translate(x1, y1); rotate(90); translate(0, -cw * s1); scale(s1, s1)
\* the latter maps the content point (u, v) to (x1 + cw*s1 - v*s1, y1 + u*s1)
_drawn_box(p, rotate, f) ==
    IF ~rotate
    THEN [x_lo |-> f.x, x_hi |-> FAdd(f.x, FMul(FInt(p.cw), f.s)),
          y_lo |-> f.y, y_hi |-> FAdd(f.y, FMul(FInt(p.ch), f.s))]
    ELSE [x_lo |-> FAdd(f.x, FMul(FInt(p.cw - p.ch), f.s)),
          x_hi |-> FAdd(f.x, FMul(FInt(p.cw), f.s)),
          y_lo |-> f.y, y_hi |-> FAdd(f.y, FMul(FInt(p.cw), f.s))]

render_pdf(self, code, description, host_wrap, host_name, host_scale_mode, scrap) ==
    LET content == _draw_label_content(self, code, description, scrap)
        p == _page(self, host_name, host_scale_mode)
        f0 == best_fit(p, TRUE)
        f1 == best_fit(p, FALSE)
        rotate == _rotate(f0, f1)
        f == IF rotate THEN f1 ELSE f0
    IN  IF ~host_wrap
        THEN [host_wrap |-> FALSE, host_name |-> host_name,
              host_scale_mode |-> host_scale_mode,
              pagesize |-> <<p.cw, p.ch>>, rotate |-> FALSE, s |-> FInt(1),
              box |-> [x_lo |-> FInt(0), x_hi |-> FInt(p.cw),
                       y_lo |-> FInt(0), y_hi |-> FInt(p.ch)],
              content |-> content]
        ELSE [host_wrap |-> TRUE, host_name |-> host_name,
              host_scale_mode |-> host_scale_mode,
              pagesize |-> <<p.host_w, p.host_h>>, rotate |-> rotate, s |-> f.s,
              box |-> _drawn_box(p, rotate, f),
              content |-> content]

(***************************************************************************)
(* The layout engine as a state machine.  A layout function is pure: the   *)
(* initial state holds a call with its arguments, drawn from the sets      *)
(* below, and one action carries the call out.                             *)
(***************************************************************************)
SeqsUpTo(S, n) == UNION {[1..k -> S] : k \in 0..n}

TextChars == {"W", "i", " ", "\n", "\r"}
Texts == SeqsUpTo(TextChars, MaxTextLen)
WrapSizes == {MIN_DESC_FONT_SIZE, MAX_DESC_FONT_SIZE}
WrapWidths == {20, 40, 252}             \* points; 252 is block_w of the 4 inch label
BandHeights == {3000, 10000, 24120}     \* hundredths; 241.20 is the band of the 4x6 label

CodeChars == {"W", "i"}
Codes == {[i \in 1..n |-> c] : n \in 1..MaxCodeLen, c \in CodeChars}
             \cup {<<"A", "a", "0", "i", "0", "0">>}
RenderDescriptions == {<<>>, <<"W", " ", "i">>}
ContentInches == {LABEL_WIDTH_IN, LABEL_HEIGHT_IN}
HostArgs == {<<TRUE, n, m>> : n \in {"Letter", "A4", "Legal"}, m \in {"fit", "none"}}
                \cup {<<FALSE, "Letter", "fit">>}

NoPdf == [written |-> FALSE]

\* no handler has run yet
NoLast ==
    [op |-> "", dialog |-> "", code |-> <<>>, desc |-> <<>>, id |-> 0,
     pairs |-> <<>>, added |-> 0, skipped |-> 0, raised |-> "", ids |-> {}]

\* the application is not running: the layout functions are called on their own
NoApp ==
    /\ db = [rows |-> {}, seq |-> 0]
    /\ label_var = <<>> /\ values = <<>>
    /\ status_var = [text |-> "Ready.", name |-> <<>>, n |-> 0]
    /\ scrap_var = FALSE /\ regrind_var = FALSE /\ copies_var = <<"1">>
    /\ wins = {} /\ grab = "" /\ tree = {} /\ edit_id = 0
    /\ authed = FALSE /\ last = NoLast
    /\ platform = "windows" /\ copies_mode = SUMATRA_COPIES_MODE
    /\ jobs = <<>> /\ threads = <<>>

\* longer texts for _wrap_text: lines of several words, with breaks after them
LongTexts ==
    {<<"i", " ", "i", " ", "W">>,
     <<"i", " ", "i", " ", "i", " ", "i", " ", "W", " ", "i">>,
     <<"W", " ", "i", " ", "i", "\r", " ", "W", "\n", "i", "i", " ", "i">>,
     <<" ", "i", "i", " ", " ", "i", " ", "i", "i", "i", " ", "i", " ">>}

WrapCalls ==
    {[fn |-> "_wrap_text", done |-> FALSE, text |-> t, font_name |-> desc_font_name,
      font_size |-> z, max_width |-> w, max_height |-> 0, size |-> 0, lines |-> <<>>] :
        t \in Texts \cup LongTexts, z \in WrapSizes, w \in WrapWidths}

ParagraphCalls ==
    {[fn |-> "_fit_paragraph", done |-> FALSE, text |-> t, font_name |-> desc_font_name,
      font_size |-> 0, max_width |-> w, max_height |-> h, size |-> 0, lines |-> <<>>] :
        t \in Texts, w \in WrapWidths, h \in BandHeights}

\* calls of _fit_font: <<max_size, min_size>> as _draw_label_content passes them,
\* other ranges, the default min_size of 18, and a range with max_size < min_size
FitFontRanges ==
    {<<CODE_FONT_SIZE, CODE_MIN_SIZE>>, <<MAX_DESC_FONT_SIZE, MIN_DESC_FONT_SIZE>>,
     <<30, 30>>, <<40, DEFAULT_MIN_SIZE>>, <<20, CODE_MIN_SIZE>>}
FitFontWidths == {20, 100, 396}          \* points

FitFontCalls ==
    {[fn |-> "_fit_font", done |-> FALSE, text |-> t, target_width |-> w,
      max_size |-> r[1], min_size |-> r[2], size |-> 0] :
        t \in Codes, w \in FitFontWidths, r \in FitFontRanges}

RenderCalls ==
    {[fn |-> "render_pdf", done |-> FALSE, code |-> c, description |-> d,
      host_wrap |-> a[1], host_name |-> a[2], host_scale_mode |-> a[3], scrap |-> k] :
        c \in Codes, d \in RenderDescriptions, a \in HostArgs, k \in BOOLEAN}

InitWrap ==
    /\ renderer = LabelRenderer(LABEL_WIDTH_IN, LABEL_HEIGHT_IN, MARGIN_IN_PCT)
    /\ pdf = NoPdf
    /\ call \in WrapCalls \cup ParagraphCalls \cup FitFontCalls
    /\ NoApp

WrapText ==
    /\ call.fn = "_wrap_text" /\ ~call.done
    /\ call' = [call EXCEPT !.done = TRUE,
                            !.lines = _wrap_text(call.text, call.font_name,
                                                 call.font_size, call.max_width)]
    /\ UNCHANGED <<renderer, pdf, appvars>>

FitParagraph ==
    /\ call.fn = "_fit_paragraph" /\ ~call.done
    /\ LET r == _fit_paragraph(call.text, call.max_width, call.max_height)
       IN  call' = [call EXCEPT !.done = TRUE, !.size = r.size, !.lines = r.lines]
    /\ UNCHANGED <<renderer, pdf, appvars>>

FitFont ==
    /\ call.fn = "_fit_font" /\ ~call.done
    /\ call' = [call EXCEPT !.done = TRUE,
                            !.size = _fit_font(call.text, call.target_width,
                                               call.max_size, call.min_size)]
    /\ UNCHANGED <<renderer, pdf, appvars>>

NextWrap == WrapText \/ FitParagraph \/ FitFont

SpecWrap == InitWrap /\ [][NextWrap]_vars

InitRender ==
    /\ \E w \in ContentInches, h \in ContentInches, g \in BOOLEAN :
          renderer = [LabelRenderer(w, h, MARGIN_IN_PCT) EXCEPT !.regrind_active = g]
    /\ pdf = NoPdf
    /\ call \in RenderCalls
    /\ NoApp

RenderPdf ==
    /\ call.fn = "render_pdf" /\ ~call.done
    /\ call' = [call EXCEPT !.done = TRUE]
    /\ pdf' = (render_pdf(renderer, call.code, call.description, call.host_wrap,
                          call.host_name, call.host_scale_mode, call.scrap)
               @@ [written |-> TRUE])
    /\ UNCHANGED <<renderer, appvars>>

NextRender == RenderPdf

SpecRender == InitRender /\ [][NextRender]_vars

(***************************************************************************)
(* Claims about the layout engine.                                         *)
(***************************************************************************)
CodeFits(c) == c.code_text_width <= c.max_code_width * 1000

\* C1, as stated: for every code string the size chosen by _fit_font in
\* _draw_label_content (from 220 down to the floor 28) renders the code on one
\* line no wider than the available width.
C1_CodeNeverOverflows ==
    pdf.written => CodeFits(pdf.content)

\* C1, amended: the chosen size is in 28..220, and the code is no wider than the
\* available width whenever the chosen size is above the floor 28 or the code
\* fits at size 28; a code that is too wide at 28 is drawn at 28 all the same.
C1_CodeFitsUnlessFloorOverflows ==
    pdf.written =>
        LET c == pdf.content
            fitsAtFloor == stringWidth(c.code, code_font_name, CODE_MIN_SIZE)
                               <= c.max_code_width * 1000
        IN  /\ c.code_size \in CODE_MIN_SIZE..CODE_FONT_SIZE
            /\ (c.code_size > CODE_MIN_SIZE \/ fitsAtFloor) => CodeFits(c)
            /\ ~fitsAtFloor => c.code_size = CODE_MIN_SIZE

\* C1, witness: a code that fits only after shrinking, at a size above the floor.
C1_ShrunkToFit ==
    /\ pdf.written
    /\ pdf.content.code_size > CODE_MIN_SIZE
    /\ pdf.content.code_size < CODE_FONT_SIZE
    /\ CodeFits(pdf.content)
    /\ Len(pdf.content.code) >= 2

\* C2: whenever _fit_paragraph returns a size above the floor 28, the returned
\* lines at that size are no higher than the band (lines x size x 1.22 <= band
\* height); the band overflows only when the returned size is 28.
C2_ParagraphFitsAboveFloor ==
    (call.fn = "_fit_paragraph" /\ call.done) =>
        \/ Len(call.lines) * call.size * DESC_LINE_SPACING_PCT <= call.max_height
        \/ call.size = MIN_DESC_FONT_SIZE

\* C2, witness: a paragraph of two or more lines that fits the band only after
\* shrinking, at a size above the floor.
C2_ShrunkParagraph ==
    /\ call.fn = "_fit_paragraph" /\ call.done
    /\ call.size > MIN_DESC_FONT_SIZE
    /\ call.size < MAX_DESC_FONT_SIZE
    /\ Len(call.lines) >= 2
    /\ \E i \in 1..Len(call.lines) : Len(split(call.lines[i])) >= 2

\* the scaled areas of the two orientations of the page written
PageOf(f) == _page(renderer, f.host_name, f.host_scale_mode)
Area(fit) == FMul(fit.w, fit.h)
BoxWidth(b) == FSub(b.x_hi, b.x_lo)
BoxHeight(b) == FSub(b.y_hi, b.y_lo)

\* C3: with host wrapping, render_pdf draws the content in the orientation whose
\* scaled area is the larger; it is rotated only when the rotated area is
\* strictly larger, so a tie is drawn unrotated.
C3_LargerOrientationDrawn ==
    (pdf.written /\ pdf.host_wrap) =>
        LET f0 == best_fit(PageOf(pdf), TRUE)
            f1 == best_fit(PageOf(pdf), FALSE)
            chosen == IF pdf.rotate THEN f1 ELSE f0
        IN  /\ pdf.rotate <=> FLess(Area(f0), Area(f1))
            /\ FLeq(Area(f0), Area(chosen)) /\ FLeq(Area(f1), Area(chosen))
            /\ BoxWidth(pdf.box) = chosen.w /\ BoxHeight(pdf.box) = chosen.h
            /\ pdf.s = chosen.s

\* C3, witness: a page on which the rotated content area is the larger and is drawn.
C3_RotatedDrawn ==
    /\ pdf.written /\ pdf.host_wrap /\ pdf.rotate
    /\ FLess(Area(best_fit(PageOf(pdf), TRUE)), Area(best_fit(PageOf(pdf), FALSE)))

\* the words of a sequence of lines, read line by line
RECURSIVE WordsOf(_)
WordsOf(lines) == IF lines = <<>> THEN <<>> ELSE split(Head(lines)) \o WordsOf(Tail(lines))

\* the lines are those of the explicit lines raws, in order: each explicit line
\* is covered by one or more of the lines, and no line holds words of two
RECURSIVE CoversRaws(_, _)
CoversRaws(lines, raws) ==
    IF raws = <<>> THEN lines = <<>>
    ELSE \E k \in 1..Len(lines) :
            /\ WordsOf(SubSeq(lines, 1, k)) = split(Head(raws))
            /\ CoversRaws(SubSeq(lines, k + 1, Len(lines)), Tail(raws))

\* C4, as stated: wrapping never drops or reorders words: the words of the lines
\* returned by _wrap_text, read line by line, are exactly the whitespace-separated
\* words of the input in the same order; for _fit_paragraph they are the words of
\* the explicit lines of the description, no word crossing an explicit line boundary.
C4_WordsPreserved ==
    call.done =>
        /\ call.fn = "_wrap_text" => WordsOf(call.lines) = split(call.text)
        /\ call.fn = "_fit_paragraph" =>
              /\ WordsOf(call.lines) = split(call.text)
              /\ CoversRaws(call.lines, split_sep(call.text, "\n"))

(***************************************************************************)
(* Bounds and inputs of the application model.                             *)
(***************************************************************************)
MaxId == 2          \* rows ever inserted into table labels in one run
MaxPrints == 1      \* temporary PDF files made in one run

\* the text typed into a label code entry
NameInputs == {<<>>, <<" ">>, <<"a">>, <<"A">>, <<"b">>, <<" ", "a", " ">>}

\* the text typed into a description box
DescInputs == {<<>>, <<"d">>, <<" ", "e", "\n">>}

\* the text pasted into the bulk import box
BulkInputs ==
    { <<>>,
      <<"a", " ", "d">>,
      <<"b">>,
      <<" ", "A", " ", " ", "e", " ", "\n", "\n", "a", " ", "d">>,
      <<"a", " ", "d", "\r", "\n", "a", " ", "e">> }

\* datetime.datetime.now().isoformat(timespec="seconds"): the runs of the
\* model take place within one second
Stamps == {"2026-01-05T09:00:00"}

\* the text typed into the password dialog; None when the dialog is cancelled
None == "None"
Passwords == {<<"a", "d", "m", "i", "n", " ", "p", "w">>, <<"g", "u", "e", "s", "s">>, <<>>}

(***************************************************************************)
(* Text functions of the handlers.                                         *)
(***************************************************************************)
\* str.splitlines(): breaks at "\n", "\r" and "\r\n", no empty last line
RECURSIVE splitlines(_)
splitlines(s) ==
    IF s = <<>> THEN <<>>
    ELSE LET n   == span(s, {"\n", "\r"})
             brk == IF n = Len(s) THEN 0
                    ELSE IF s[n + 1] = "\r" /\ n + 2 <= Len(s) /\ s[n + 2] = "\n"
                         THEN 2 ELSE 1
         IN  <<SubSeq(s, 1, n)>> \o splitlines(SubSeq(s, n + brk + 1, Len(s)))

\* str.split(None, 1): the first word and the rest after the whitespace run
split_once(s) ==
    LET t    == lstrip(s)
        n    == span(t, WS)
        rest == lstrip(SubSeq(t, n + 1, Len(t)))
    IN  IF t = <<>> THEN <<>>
        ELSE IF rest = <<>> THEN <<SubSeq(t, 1, n)>>
        ELSE <<SubSeq(t, 1, n), rest>>

\* tk.Text.get("1.0", tk.END): the content and the newline Tk appends
text_get(content) == content \o <<"\n">>

\* the ASCII code of the characters stored names are made of
ord(c) ==
    CASE c = "A" -> 65 [] c = "B" -> 66 [] c = "a" -> 97 [] c = "b" -> 98
      [] c = "d" -> 100 [] c = "e" -> 101 [] OTHER -> 0

\* COLLATE NOCASE folds the upper-case ASCII letters to lower case
nocase(c) == CASE c = "A" -> "a" [] c = "B" -> "b" [] OTHER -> c

RECURSIVE nocase_leq(_, _)
nocase_leq(s, t) ==
    IF s = <<>> THEN TRUE
    ELSE IF t = <<>> THEN FALSE
    ELSE LET a == ord(nocase(Head(s)))
             b == ord(nocase(Head(t)))
         IN  IF a < b THEN TRUE
             ELSE IF a > b THEN FALSE
             ELSE nocase_leq(Tail(s), Tail(t))

\* hashlib.sha256(pw.encode("utf-8")).hexdigest(); the first password stands
\* for the preimage of ADMIN_PASSWORD_HASH, which the source does not give
ADMIN_PASSWORD_HASH == "16cb31feec45070c0f9c07e033a9aab6b57fc13925399fdee1637662623d6304"

sha256_hexdigest(pw) ==
    CASE pw = <<"a", "d", "m", "i", "n", " ", "p", "w">> -> ADMIN_PASSWORD_HASH
      [] pw = <<"g", "u", "e", "s", "s">> ->
             "f1abe1b083d12d181ae136cfc75b8d18a8ecb43ac4e9d1a36d6a9c75b6016b61"
      [] pw = <<>> ->
             "e3b0c44298fc1c149afbf4c8996fb92427ae41e4649b934ca495991b7852b855"

(***************************************************************************)
(* LabelDB.  A database is the set of rows of table labels and the         *)
(* largest id ever given (sqlite_sequence).  Column name is UNIQUE with    *)
(* the default BINARY collation: two names collide when they are equal     *)
(* character by character.                                                 *)
(***************************************************************************)
IntegrityError == "sqlite3.IntegrityError"

EmptyDb == [rows |-> {}, seq |-> 0]

\* INSERT OR REPLACE in place of INSERT: the colliding row is replaced
add_label_or_replace(d, name, description, now) ==
    [raised |-> "",
     db |-> [rows |-> {r \in d.rows : r.name # strip(name)}
                        \cup {[id |-> d.seq + 1, name |-> strip(name),
                               description |-> strip(description), created_at |-> now]},
             seq |-> d.seq + 1]]

add_label(d, name, description, now) ==
    IF \E r \in d.rows : r.name = strip(name)
    THEN [raised |-> IntegrityError, db |-> d]
    ELSE [raised |-> "",
          db |-> [rows |-> d.rows \cup {[id |-> d.seq + 1, name |-> strip(name),
                                         description |-> strip(description),
                                         created_at |-> now]},
                  seq |-> d.seq + 1]]

\* the possible results of the SELECT ... ORDER BY name COLLATE NOCASE ASC:
\* SQL leaves the order of rows with equal keys open
RECURSIVE get_all_labels(_)
get_all_labels(rows) ==
    IF rows = {} THEN {<<>>}
    ELSE UNION { {<<r>> \o s : s \in get_all_labels(rows \ {r})} :
                 r \in {x \in rows : \A y \in rows : nocase_leq(x.name, y.name)} }

\* the row or None; None is the empty set, a row the set of that row
get_label_by_name(d, name) == {r \in d.rows : r.name = strip(name)}

\* a variant of delete_by_ids that runs the DELETE for one of the ids only
delete_by_ids_execute_one(d, ids) ==
    IF ids = {} THEN [rowcount |-> 0, db |-> d]
    ELSE LET i == CHOOSE x \in ids : \A y \in ids : x <= y
         IN  [rowcount |-> Cardinality({r \in d.rows : r.id = i}),
              db |-> [d EXCEPT !.rows = {r \in d.rows : r.id # i}]]

\* LabelDB.delete_by_ids: cur.rowcount after executemany is the sum of the rows
\* deleted by the statements
delete_by_ids(d, ids) ==
    IF ids = {} THEN [rowcount |-> 0, db |-> d]
    ELSE [rowcount |-> Cardinality({r \in d.rows : r.id \in ids}),
          db |-> [d EXCEPT !.rows = {r \in d.rows : r.id \notin ids}]]

update_label(d, id_, name, description) ==
    IF /\ \E r \in d.rows : r.id = id_
       /\ \E r \in d.rows : r.id # id_ /\ r.name = strip(name)
    THEN [raised |-> IntegrityError, updated |-> FALSE, db |-> d]
    ELSE [raised |-> "",
          updated |-> \E r \in d.rows : r.id = id_,
          db |-> [d EXCEPT !.rows =
                     {IF r.id = id_
                      THEN [r EXCEPT !.name = strip(name), !.description = strip(description)]
                      ELSE r : r \in d.rows}]]

(***************************************************************************)
(* App: the handlers of the main window and of the admin windows, as       *)
(* functions of the state they read.                                       *)
(***************************************************************************)
Status(text, name, n) == [text |-> text, name |-> name, n |-> n]

Last(op, dialog) == [NoLast EXCEPT !.op = op, !.dialog = dialog]

\* App._on_selection: the status line and the renderer after it
_on_selection(d, lv, st, rend) ==
    LET row == get_label_by_name(d, lv)
    IN  IF strip(lv) = <<>> \/ row = {}
        THEN [status_var |-> st, renderer |-> rend]
        ELSE [status_var |-> Status("Loaded: ", (CHOOSE r \in row : TRUE).name, 0),
              renderer |-> [rend EXCEPT !.regrind_active = regrind_var]]

\* App._reload_labels, for the rows that get_all_labels returned
\* a variant of _reload_labels that sets the combobox to names[0] whatever it held
_reload_labels_first_name(d, rows, cur, st, rend) ==
    LET names == [i \in 1..Len(rows) |-> rows[i].name]
    IN  IF rows # <<>>
        THEN [values |-> names, label_var |-> names[1]]
                 @@ _on_selection(d, names[1], st, rend)
        ELSE [values |-> names, label_var |-> <<>>,
              status_var |-> Status("No labels yet.", <<>>, 0), renderer |-> rend]

_reload_labels(d, rows, cur, st, rend) ==
    LET names == [i \in 1..Len(rows) |-> rows[i].name]
        lv    == IF \E i \in 1..Len(names) : names[i] = cur THEN cur ELSE names[1]
    IN  IF rows # <<>>
        THEN [values |-> names, label_var |-> lv] @@ _on_selection(d, lv, st, rend)
        ELSE [values |-> names, label_var |-> <<>>,
              status_var |-> Status("No labels yet.", <<>>, 0), renderer |-> rend]

\* App._admin_login with a check that lets every entered password through
_admin_login_any_password(answer) ==
    IF ~answer.ok THEN "" ELSE "Admin Panel"

\* App._admin_login: what it opens or shows for the answer of the password dialog
_admin_login(answer) ==
    IF ~answer.ok THEN ""
    ELSE IF sha256_hexdigest(answer.pw) = ADMIN_PASSWORD_HASH THEN "Admin Panel"
    ELSE "Access denied"

\* App._save_single: the dialog it shows and the database after it
_save_single(d, code_text, desc_text, now) ==
    LET code == strip(code_text)
        desc == strip(text_get(desc_text))
        r    == add_label(d, code, desc, now)
    IN  IF code = <<>> THEN [dialog |-> "Required", db |-> d]
        ELSE IF desc = <<>> THEN [dialog |-> "Required", db |-> d]
        ELSE IF r.raised = IntegrityError THEN [dialog |-> "Duplicate", db |-> d]
        ELSE [dialog |-> "Saved", db |-> r.db]

\* App._save_edit_label
_save_edit_label(d, id_, code_text, desc_text) ==
    LET code == strip(code_text)
        desc == strip(text_get(desc_text))
        r    == update_label(d, id_, code, desc)
    IN  IF code = <<>> THEN [dialog |-> "Required", db |-> d]
        ELSE IF desc = <<>> THEN [dialog |-> "Required", db |-> d]
        ELSE IF r.raised = IntegrityError THEN [dialog |-> "Duplicate", db |-> d]
        ELSE IF r.updated THEN [dialog |-> "Updated", db |-> r.db]
        ELSE [dialog |-> "Error", db |-> r.db]

\* App._parse_bulk_lines
RECURSIVE _parse_raws(_)
_parse_raws(raws) ==
    IF raws = <<>> THEN <<>>
    ELSE LET line  == strip(Head(raws))
             parts == split_once(line)
             pair  == IF Len(parts) = 2 THEN <<strip(parts[1]), strip(parts[2])>>
                      ELSE <<strip(line), <<>> >>
         IN  IF line = <<>> THEN _parse_raws(Tail(raws))
             ELSE <<pair>> \o _parse_raws(Tail(raws))

_parse_bulk_lines(blob) == _parse_raws(splitlines(blob))

\* the loop of do_import over the parsed pairs
RECURSIVE _import_pairs(_, _, _)
_import_pairs(d, pairs, now) ==
    IF pairs = <<>> THEN [db |-> d, added |-> 0, skipped |-> 0]
    ELSE LET r == add_label(d, Head(pairs)[1], Head(pairs)[2], now)
             t == _import_pairs(r.db, Tail(pairs), now)
         IN  IF r.raised = IntegrityError
             THEN [t EXCEPT !.skipped = @ + 1]
             ELSE [t EXCEPT !.added = @ + 1]

\* refresh() of the list window with an empty filter: one item per row,
\* iid the row id, first value the name
refresh(d) == {[id |-> r.id, name |-> r.name] : r \in d.rows}

(***************************************************************************)
(* The application as a state machine.  Every action is one handler of the *)
(* Tk event loop, run to completion, its message boxes included.           *)
(*                                                                         *)
(* A window that holds the grab takes all pointer input: a button of the   *)
(* main window or of another admin window is pressed only when no window   *)
(* holds the grab or its own window does.  Windows of one kind are not     *)
(* told apart.  The filter entry of the list window is left empty.         *)
(***************************************************************************)
Interactive(w) == w \in wins /\ grab \in {"", w}

NoCall == [fn |-> "mainloop", done |-> TRUE]

\* App.__init__ on a machine without labels.db, then mainloop
Init ==
    /\ renderer = LabelRenderer(LABEL_WIDTH_IN, LABEL_HEIGHT_IN, MARGIN_IN_PCT)
    /\ call = NoCall /\ pdf = NoPdf
    /\ db = EmptyDb
    /\ \E rows \in get_all_labels(db.rows) :
         LET rl == _reload_labels(db, rows, <<>>, Status("Ready.", <<>>, 0), renderer)
         IN  /\ values = rl.values /\ label_var = rl.label_var
             /\ status_var = rl.status_var
    /\ scrap_var = FALSE /\ regrind_var = FALSE /\ copies_var = <<"1">>
    /\ wins = {} /\ grab = "" /\ tree = {} /\ edit_id = 0
    /\ authed = FALSE /\ last = NoLast
    /\ platform = "windows" /\ copies_mode = SUMATRA_COPIES_MODE
    /\ jobs = <<>> /\ threads = <<>>

\* the answers of simpledialog.askstring: cancelled, or OK with a text
Answers == {[ok |-> FALSE, pw |-> <<>>]} \cup {[ok |-> TRUE, pw |-> p] : p \in Passwords}

\* the Admin button of the main window
AdminLogin ==
    /\ grab = ""
    /\ \E answer \in Answers :
         LET shown == _admin_login(answer)
         IN  /\ wins' = IF shown = "Admin Panel" THEN wins \cup {"panel"} ELSE wins
             /\ grab' = IF shown = "Admin Panel" THEN "panel" ELSE grab
             /\ authed' = (authed \/ (answer.ok /\ sha256_hexdigest(answer.pw) = ADMIN_PASSWORD_HASH))
             /\ last' = Last("_admin_login", shown)
    /\ UNCHANGED <<layoutvars, dbvars, printvars, tree, edit_id>>

\* the close button of a window, or Cancel of the add and edit windows
Destroy ==
    /\ \E w \in wins :
         /\ Interactive(w)
         /\ wins' = wins \ {w}
         /\ grab' = IF grab = w THEN "" ELSE grab
         /\ tree' = IF w = "list" THEN {} ELSE tree
         /\ edit_id' = IF w = "edit" THEN 0 ELSE edit_id
    /\ last' = Last("destroy", "")
    /\ UNCHANGED <<layoutvars, dbvars, printvars, authed>>

\* Add Single Label of the admin panel
OpenAddSingle ==
    /\ Interactive("panel")
    /\ wins' = wins \cup {"add"} /\ grab' = "add"
    /\ last' = Last("_open_add_single", "")
    /\ UNCHANGED <<layoutvars, dbvars, printvars, tree, edit_id, authed>>

\* Save of the add window
SaveSingle ==
    /\ Interactive("add")
    /\ \E code_text \in NameInputs, desc_text \in DescInputs, now \in Stamps :
         LET r == _save_single(db, code_text, desc_text, now)
         IN  /\ r.db.seq <= MaxId
             /\ db' = r.db
             /\ last' = [Last("_save_single", r.dialog) EXCEPT
                             !.code = code_text, !.desc = desc_text]
             /\ IF r.dialog = "Saved"
                THEN /\ \E rows \in get_all_labels(r.db.rows) :
                          LET rl == _reload_labels(r.db, rows, label_var, status_var, renderer)
                          IN  /\ values' = rl.values /\ label_var' = rl.label_var
                              /\ status_var' = rl.status_var /\ renderer' = rl.renderer
                     /\ wins' = wins \ {"add"} /\ grab' = ""
                ELSE UNCHANGED <<values, label_var, status_var, renderer, wins, grab>>
    /\ UNCHANGED <<call, pdf, printvars, tree, edit_id, authed>>

\* View / Delete Labels of the admin panel
OpenViewList ==
    /\ Interactive("panel")
    /\ wins' = wins \cup {"list"} /\ grab' = "list"
    /\ tree' = refresh(db)
    /\ last' = Last("_open_view_list", "")
    /\ UNCHANGED <<layoutvars, dbvars, printvars, edit_id, authed>>

\* Search of the list window
Search ==
    /\ Interactive("list")
    /\ tree' = refresh(db)
    /\ last' = Last("refresh", "")
    /\ UNCHANGED <<layoutvars, dbvars, printvars, wins, grab, edit_id, authed>>

\* Delete Selected, or the Delete key, of the list window
DeleteSelected ==
    /\ Interactive("list")
    /\ \E sel \in SUBSET tree, yes \in BOOLEAN :
         LET ids == {item.id : item \in sel}
             r   == delete_by_ids(db, ids)
         IN  IF sel = {}
             THEN /\ last' = Last("delete_selected", "Nothing selected")
                  /\ UNCHANGED <<dbvars, renderer, tree>>
             ELSE IF ~yes
             THEN /\ last' = [Last("delete_selected", "Confirm delete") EXCEPT
                                  !.added = Cardinality(ids)]
                  /\ UNCHANGED <<dbvars, renderer, tree>>
             ELSE /\ db' = r.db
                  /\ tree' = refresh(r.db)
                  /\ \E rows \in get_all_labels(r.db.rows) :
                       LET rl == _reload_labels(r.db, rows, label_var, status_var, renderer)
                       IN  /\ values' = rl.values /\ label_var' = rl.label_var
                           /\ renderer' = rl.renderer
                  /\ status_var' = Status("Deleted ", <<>>, r.rowcount)
                  /\ last' = [Last("delete_selected", "Confirm delete") EXCEPT
                                  !.added = Cardinality(ids), !.skipped = r.rowcount,
                                  !.id = 1, !.ids = ids]
    /\ UNCHANGED <<call, pdf, printvars, wins, grab, edit_id, authed>>

\* a double click on a row of the list window
OnDoubleClick ==
    /\ Interactive("list")
    /\ \E item \in tree :
         LET row == get_label_by_name(db, item.name)
         IN  IF row # {}
             THEN /\ wins' = wins \cup {"edit"} /\ grab' = "edit"
                  /\ edit_id' = (CHOOSE r \in row : TRUE).id
                  /\ last' = [Last("on_double_click", "Edit Label") EXCEPT !.code = item.name]
             ELSE /\ last' = [Last("on_double_click", "") EXCEPT !.code = item.name]
                  /\ UNCHANGED <<wins, grab, edit_id>>
    /\ UNCHANGED <<layoutvars, dbvars, printvars, tree, authed>>

\* Save Changes of the edit window
SaveEditLabel ==
    /\ Interactive("edit")
    /\ \E code_text \in NameInputs, desc_text \in DescInputs :
         LET r == _save_edit_label(db, edit_id, code_text, desc_text)
         IN  /\ db' = r.db
             /\ last' = [Last("_save_edit_label", r.dialog) EXCEPT
                             !.code = code_text, !.desc = desc_text, !.id = edit_id]
             /\ IF r.dialog = "Updated"
                THEN /\ \E rows \in get_all_labels(r.db.rows) :
                          LET rl == _reload_labels(r.db, rows, label_var, status_var, renderer)
                          IN  /\ values' = rl.values /\ label_var' = rl.label_var
                              /\ status_var' = rl.status_var /\ renderer' = rl.renderer
                     /\ tree' = IF "list" \in wins THEN refresh(r.db) ELSE tree
                     /\ wins' = wins \ {"edit"} /\ grab' = "" /\ edit_id' = 0
                ELSE UNCHANGED <<values, label_var, status_var, renderer, tree,
                                 wins, grab, edit_id>>
    /\ UNCHANGED <<call, pdf, printvars, authed>>

\* Bulk Import Labels of the admin panel
OpenBulkImport ==
    /\ Interactive("panel")
    /\ wins' = wins \cup {"bulk"} /\ grab' = "bulk"
    /\ last' = Last("_open_bulk_import", "")
    /\ UNCHANGED <<layoutvars, dbvars, printvars, tree, edit_id, authed>>

\* Import of the bulk import window
DoImport ==
    /\ Interactive("bulk")
    /\ \E blob \in BulkInputs, now \in Stamps :
         LET pairs == _parse_bulk_lines(text_get(blob))
             r     == _import_pairs(db, pairs, now)
         IN  /\ r.db.seq <= MaxId
             /\ db' = r.db
             /\ \E rows \in get_all_labels(r.db.rows) :
                  LET rl == _reload_labels(r.db, rows, label_var, status_var, renderer)
                  IN  /\ values' = rl.values /\ label_var' = rl.label_var
                      /\ status_var' = rl.status_var /\ renderer' = rl.renderer
             /\ last' = [Last("do_import", "Import done") EXCEPT
                             !.pairs = pairs, !.added = r.added, !.skipped = r.skipped]
    /\ wins' = wins \ {"bulk"} /\ grab' = ""
    /\ UNCHANGED <<call, pdf, printvars, tree, edit_id, authed>>

\* a name picked from the material combobox
ComboboxSelected ==
    /\ grab = ""
    /\ \E i \in 1..Len(values) :
         LET s == _on_selection(db, values[i], status_var, renderer)
         IN  /\ label_var' = values[i]
             /\ status_var' = s.status_var /\ renderer' = s.renderer
             /\ last' = [Last("_on_selection", "") EXCEPT !.code = values[i]]
    /\ UNCHANGED <<call, pdf, db, values, printvars, adminvars>>

Next ==
    \/ AdminLogin \/ Destroy
    \/ OpenAddSingle \/ SaveSingle
    \/ OpenViewList \/ Search \/ DeleteSelected \/ OnDoubleClick \/ SaveEditLabel
    \/ OpenBulkImport \/ DoImport
    \/ ComboboxSelected

Spec == Init /\ [][Next]_vars

(***************************************************************************)
(* Claims about the label records.                                         *)
(***************************************************************************)
NamesOf(d) == {r.name : r \in d.rows}

fold(s) == [i \in 1..Len(s) |-> nocase(s[i])]

\* C5: after any sequence of single-add, bulk-import, edit and delete
\* operations, no two stored label records have names that are equal when
\* compared case-insensitively.
C5_NamesUniqueNoCase ==
    \A r1 \in db.rows, r2 \in db.rows :
        fold(r1.name) = fold(r2.name) => r1 = r2

\* the pairs of a bulk import whose name is stored already or was given by
\* an earlier line of the same import
Duplicates(d, pairs) ==
    {i \in 1..Len(pairs) :
        \/ pairs[i][1] \in NamesOf(d)
        \/ \E j \in 1..(i - 1) : pairs[j][1] = pairs[i][1]}

\* C6: a single-add or an edit whose trimmed name is the name of another
\* stored record leaves the records as they were, keeps its window open and
\* shows a dialog, the Duplicate error whenever a description was given; a
\* bulk import keeps every stored record as it was and counts as skipped
\* exactly the lines whose name was stored already or given by an earlier
\* line, all other lines being added.
C6_DuplicateRejected ==
    [][ /\ ( /\ last'.op = "_save_single"
             /\ strip(last'.code) \in NamesOf(db) )
           => /\ db' = db /\ "add" \in wins'
              /\ last'.dialog \in {"Duplicate", "Required"}
              /\ strip(text_get(last'.desc)) # <<>> => last'.dialog = "Duplicate"
        /\ ( /\ last'.op = "_save_edit_label"
             /\ \E r \in db.rows : r.id # last'.id /\ r.name = strip(last'.code) )
           => /\ db' = db /\ "edit" \in wins'
              /\ last'.dialog \in {"Duplicate", "Required"}
              /\ strip(text_get(last'.desc)) # <<>> => last'.dialog = "Duplicate"
        /\ last'.op = "do_import"
           => /\ db.rows \subseteq db'.rows
              /\ last'.skipped = Cardinality(Duplicates(db, last'.pairs))
              /\ last'.added + last'.skipped = Len(last'.pairs)
              /\ Cardinality(db'.rows) = Cardinality(db.rows) + last'.added
      ]_vars

\* C6, the case: a single-add of a stored name was refused with the dialog
C6_DuplicateRefused ==
    /\ last.op = "_save_single" /\ last.dialog = "Duplicate"
    /\ strip(last.code) \in NamesOf(db)

\* C7: after any sequence of UI operations, every stored label record has a
\* non-empty name and a non-empty description.
C7_FieldsNonEmpty ==
    \A r \in db.rows : r.name # <<>> /\ r.description # <<>>

Trimmed(s) == s = <<>> \/ (s[1] \notin WS /\ s[Len(s)] \notin WS)

\* C8: the name and the description of every stored record have no leading
\* or trailing whitespace.
C8_FieldsTrimmed ==
    \A r \in db.rows : Trimmed(r.name) /\ Trimmed(r.description)

\* C8, the case: a record was saved from a code and a description typed with
\* surrounding whitespace
C8_PaddedInputStored ==
    /\ last.op = "_save_single" /\ last.dialog = "Saved"
    /\ last.code = <<" ", "a", " ">> /\ last.desc = <<" ", "e", "\n">>
    /\ \E r \in db.rows : r.name = <<"a">> /\ r.description = <<"e">>

\* C9: the records change only in a run in which the admin password was
\* entered before; an admin window is open only then; a cancelled or wrong
\* password entry opens no window and changes no record.
C9_PasswordGate ==
    [][ /\ db' # db => authed
        /\ wins' # {} => authed'
        /\ (last'.op = "_admin_login" /\ last'.dialog # "Admin Panel")
           => (wins' = wins /\ db' = db)
      ]_vars

\* C9, the case: records were stored after the password was entered, and a
\* later wrong password was turned away
C9_ChangedBehindGate ==
    /\ authed /\ db.rows # {}
    /\ last.op = "_admin_login" /\ last.dialog = "Access denied"

(***************************************************************************)
(* Printing.  Every _print_selected that reaches NamedTemporaryFile makes  *)
(* one temporary PDF file, a job; jobs[i] records what happened to file i. *)
(* A Timer thread is a record of the sequence threads.  Time is not        *)
(* counted by a clock: a timer fires when its interval has passed, and the *)
(* cleanup it runs measures its deadline by the sleeps it has made, in     *)
(* half seconds.  os.remove of a file that a launched SumatraPDF may still *)
(* hold open either succeeds or raises.                                    *)
(***************************************************************************)
PERSIST_PDF_SECONDS == 25
CLEANUP_TIMER_SECONDS == 25         \* threading.Timer(25, _cleanup)
CLEANUP_MIN_SECONDS == 25           \* max(PERSIST_PDF_SECONDS, 25)
CLEANUP_SLEEP_HALF_SECONDS == 3     \* time.sleep(1.5)
HalfSecondsPerSecond == 2
HOST_PAPER_NAME == "Letter"
HOST_SCALE_MODE == "fit"

\* the return codes of launch_with_settings in a run of n calls of which the
\* first good return 0 and the next, if there is one, returns 1
rcs_of(good, n) == [i \in 1..n |-> IF i <= good THEN 0 ELSE 1]

\* _silent_print_pdf that takes no notice of a failed launch
_silent_print_pdf_ignoring_rc(found, copies, good) ==
    IF ~found
    THEN [dialog |-> "SumatraPDF not found", launched |-> 0, failed |-> 0, sent |-> FALSE,
          rcs |-> <<>>, setting |-> 0]
    ELSE [dialog |-> "", launched |-> IF good < Max(1, copies) THEN good ELSE Max(1, copies),
          failed |-> IF good < Max(1, copies) THEN 1 ELSE 0, sent |-> TRUE,
          rcs |-> rcs_of(good, IF good < Max(1, copies) THEN good + 1 ELSE Max(1, copies)),
          setting |-> 0]

\* _silent_print_pdf without the test of what _find_sumatra returned
_silent_print_pdf_without_find(found, copies, good) ==
    IF good >= Max(1, copies)
    THEN [dialog |-> "", launched |-> Max(1, copies), failed |-> 0, sent |-> TRUE,
          rcs |-> rcs_of(good, Max(1, copies)), setting |-> 0]
    ELSE [dialog |-> "Sumatra print failed", launched |-> good, failed |-> 1,
          sent |-> FALSE, rcs |-> rcs_of(good, good + 1), setting |-> 0]

\* _silent_print_pdf whose loop goes on after a launch that failed
_silent_print_pdf_launching_on(found, copies, good) ==
    LET c == Max(1, copies)
    IN  IF ~found
        THEN [dialog |-> "SumatraPDF not found", launched |-> 0, failed |-> 0,
              sent |-> FALSE, rcs |-> <<>>, setting |-> 0]
        ELSE IF good >= c
             THEN [dialog |-> "", launched |-> c, failed |-> 0, sent |-> TRUE,
                   rcs |-> rcs_of(good, c), setting |-> 0]
             ELSE [dialog |-> "Sumatra print failed", launched |-> c - 1, failed |-> 1,
                   sent |-> FALSE,
                   rcs |-> [i \in 1..c |-> IF i = good + 1 THEN 1 ELSE 0],
                   setting |-> 0]

\* App._silent_print_pdf: found is what _find_sumatra returned, good the
\* number of Popen calls that succeed before one raises.  rcs are the return
\* codes of the calls of launch_with_settings, in order, and setting is the N
\* of the print setting Nx, 0 when the settings have none.
_silent_print_pdf(found, copies, good) ==
    LET c == Max(1, copies)
    IN  IF ~found
        THEN [dialog |-> "SumatraPDF not found", launched |-> 0, failed |-> 0,
              sent |-> FALSE, rcs |-> <<>>, setting |-> 0]
        ELSE IF copies_mode = "nx"
        THEN IF good >= 1
             THEN [dialog |-> "", launched |-> 1, failed |-> 0, sent |-> TRUE,
                   rcs |-> rcs_of(good, 1), setting |-> c]
             ELSE [dialog |-> "Sumatra print failed", launched |-> 0, failed |-> 1,
                   sent |-> FALSE, rcs |-> rcs_of(good, 1), setting |-> c]
        ELSE IF good >= c
             THEN [dialog |-> "", launched |-> c, failed |-> 0, sent |-> TRUE,
                   rcs |-> rcs_of(good, c), setting |-> 0]
             ELSE [dialog |-> "Sumatra print failed", launched |-> good, failed |-> 1,
                   sent |-> FALSE, rcs |-> rcs_of(good, good + 1), setting |-> 0]

\* _cleanup, the body of the timer thread: fails is the number of os.remove
\* calls that raise before one succeeds, elapsed the half seconds slept
\* a variant of _cleanup that tries once more when the last attempt raises
RECURSIVE _cleanup_trying_again(_, _, _)
_cleanup_trying_again(elapsed, fails, attempts) ==
    IF elapsed < Max(PERSIST_PDF_SECONDS, CLEANUP_MIN_SECONDS) * HalfSecondsPerSecond
    THEN IF fails = 0
         THEN [removed |-> TRUE, attempts |-> attempts + 1, elapsed |-> elapsed]
         ELSE _cleanup_trying_again(elapsed + CLEANUP_SLEEP_HALF_SECONDS, fails - 1,
                                    attempts + 1)
    ELSE IF fails = 0
         THEN [removed |-> TRUE, attempts |-> attempts + 1, elapsed |-> elapsed]
         ELSE [removed |-> fails = 1, attempts |-> attempts + 2, elapsed |-> elapsed]

RECURSIVE _cleanup(_, _, _)
_cleanup(elapsed, fails, attempts) ==
    IF elapsed < Max(PERSIST_PDF_SECONDS, CLEANUP_MIN_SECONDS) * HalfSecondsPerSecond
    THEN IF fails = 0
         THEN [removed |-> TRUE, attempts |-> attempts + 1, elapsed |-> elapsed]
         ELSE _cleanup(elapsed + CLEANUP_SLEEP_HALF_SECONDS, fails - 1, attempts + 1)
    ELSE [removed |-> fails = 0, attempts |-> attempts + 1, elapsed |-> elapsed]

\* the numbers of os.remove calls that raise in one run of _cleanup: none,
\* one, all of the loop, all of the loop and the last attempt
CleanupFails == {0, 1, 17, 18}

\* the databases a run may find in labels.db
StoredDbs ==
    {EmptyDb,
     add_label(add_label(EmptyDb, <<"a">>, <<"d">>, "2026-01-05T09:00:00").db,
               <<"b">>, <<"d", " ", "e">>, "2026-01-05T09:00:00").db}

\* the values of SUMATRA_COPIES_MODE that _silent_print_pdf tells apart
CopiesModes == {SUMATRA_COPIES_MODE, "nx"}

\* App.__init__ with labels.db as an earlier run left it, then mainloop
InitPrint ==
    /\ call = NoCall /\ pdf = NoPdf
    /\ db \in StoredDbs
    /\ platform \in {"windows", "linux"}
    /\ copies_mode \in CopiesModes
    /\ scrap_var = FALSE /\ regrind_var = FALSE /\ copies_var = <<"1">>
    /\ \E rows \in get_all_labels(db.rows) :
         LET rl == _reload_labels(db, rows, <<>>, Status("Ready.", <<>>, 0),
                                  LabelRenderer(LABEL_WIDTH_IN, LABEL_HEIGHT_IN, MARGIN_IN_PCT))
         IN  /\ values = rl.values /\ label_var = rl.label_var
             /\ status_var = rl.status_var /\ renderer = rl.renderer
    /\ wins = {} /\ grab = "" /\ tree = {} /\ edit_id = 0
    /\ authed = FALSE /\ last = NoLast
    /\ jobs = <<>> /\ threads = <<>>

\* App._on_any_toggle: the renderer after it
_on_any_toggle(d, lv, regrind, rend) ==
    IF strip(lv) # <<>> /\ get_label_by_name(d, lv) # {}
    THEN [rend EXCEPT !.regrind_active = regrind]
    ELSE rend

\* the Scrap button
ToggleScrap ==
    /\ grab = ""
    /\ scrap_var' = ~scrap_var
    /\ renderer' = _on_any_toggle(db, label_var, regrind_var, renderer)
    /\ last' = Last("_toggle_scrap", "")
    /\ UNCHANGED <<call, pdf, dbvars, adminvars, regrind_var, copies_var, platform,
                   copies_mode,
                   jobs, threads>>

\* the Regrind button
ToggleRegrind ==
    /\ grab = ""
    /\ regrind_var' = ~regrind_var
    /\ renderer' = _on_any_toggle(db, label_var, ~regrind_var, renderer)
    /\ last' = Last("_toggle_regrind", "")
    /\ UNCHANGED <<call, pdf, dbvars, adminvars, scrap_var, copies_var, platform,
                   copies_mode,
                   jobs, threads>>

\* the values typed into the copies spinbox
CopiesInputs == {<<"0">>, <<"1">>, <<"2">>, <<"x">>}

\* the value of a decimal digit, -1 for any other character
digit(c) ==
    CASE c = "0" -> 0 [] c = "1" -> 1 [] c = "2" -> 2 [] c = "3" -> 3 [] c = "4" -> 4
      [] c = "5" -> 5 [] c = "6" -> 6 [] c = "7" -> 7 [] c = "8" -> 8 [] c = "9" -> 9
      [] OTHER -> -1

RECURSIVE getint(_, _)
getint(text, acc) ==
    IF text = <<>> THEN acc ELSE getint(Tail(text), 10 * acc + digit(Head(text)))

\* tk.IntVar.get() of a variable that holds text: the number the text
\* spells, or the TclError that Tk raises for text that spells none
IntVar_get(text) ==
    IF text # <<>> /\ \A i \in 1..Len(text) : digit(text[i]) >= 0
    THEN [raised |-> "", value |-> getint(text, 0)]
    ELSE [raised |-> "TclError", value |-> 0]

\* copies = max(1, int(self.copies_var.get() or 1)), for a text that spells
\* a number
_copies(text) == Max(1, IF IntVar_get(text).value = 0 THEN 1 ELSE IntVar_get(text).value)

\* a value set in the copies spinbox
SetCopies ==
    /\ grab = ""
    /\ \E n \in CopiesInputs : n # copies_var /\ copies_var' = n
    /\ last' = Last("copies_spin", "")
    /\ UNCHANGED <<layoutvars, dbvars, adminvars, scrap_var, regrind_var, platform,
                   copies_mode,
                   jobs, threads>>

NewJob(rendered, found, sp, removed) ==
    [copies |-> _copies(copies_var), rendered |-> rendered, found |-> rendered /\ found,
     launched |-> sp.launched, failed |-> sp.failed,
     rcs |-> sp.rcs, setting |-> sp.setting,
     removes |-> IF rendered /\ sp.sent THEN 0 ELSE 1,
     exists |-> IF rendered /\ sp.sent THEN TRUE ELSE ~removed]

NewTimer(i) == [pdf |-> i, interval |-> CLEANUP_TIMER_SECONDS, pc |-> "timer"]

\* the Print button, or Control-p
PrintSelected ==
    /\ Len(jobs) < MaxPrints
    /\ LET name == strip(label_var)
           row  == get_label_by_name(db, name)
       IN  IF platform # "windows"
           THEN /\ last' = Last("_print_selected", "Unsupported OS")
                /\ UNCHANGED <<renderer, pdf, status_var, jobs, threads>>
           ELSE IF name = <<>>
           THEN /\ last' = Last("_print_selected", "")
                /\ UNCHANGED <<renderer, pdf, status_var, jobs, threads>>
           ELSE IF IntVar_get(copies_var).raised # ""
           THEN \* raised outside the try statement: it leaves the handler
                /\ last' = [Last("_print_selected", "") EXCEPT
                                !.raised = IntVar_get(copies_var).raised]
                /\ UNCHANGED <<renderer, pdf, status_var, jobs, threads>>
           ELSE IF row = {}
           THEN /\ last' = Last("_print_selected", "")
                /\ UNCHANGED <<renderer, pdf, status_var, jobs, threads>>
           ELSE \E render_ok \in BOOLEAN, found \in BOOLEAN,
                   good \in 0.._copies(copies_var), removed \in BOOLEAN :
                  LET r    == CHOOSE x \in row : TRUE
                      rend == [renderer EXCEPT !.regrind_active = regrind_var]
                      sp   == IF render_ok
                              THEN _silent_print_pdf(found, _copies(copies_var), good)
                              ELSE [dialog |-> "Print error", launched |-> 0,
                                    failed |-> 0, sent |-> FALSE,
                                    rcs |-> <<>>, setting |-> 0]
                  IN  \* inputs that are not read take one value
                      /\ (~render_ok => (found /\ good = 0))
                      /\ (~found => good = 0)
                      /\ (sp.sent => removed)
                      \* os.remove of a file that no process was given succeeds
                      /\ (sp.sent \/ sp.launched > 0 \/ removed)
                      /\ renderer' = rend
                      /\ pdf' = IF render_ok
                                THEN (render_pdf(rend, r.name, r.description, TRUE,
                                                 HOST_PAPER_NAME, HOST_SCALE_MODE,
                                                 scrap_var \/ regrind_var)
                                      @@ [written |-> TRUE])
                                ELSE pdf
                      /\ jobs' = Append(jobs, NewJob(render_ok, found, sp, removed))
                      /\ threads' = IF sp.sent
                                    THEN Append(threads, NewTimer(Len(jobs) + 1))
                                    ELSE threads
                      /\ status_var' = IF sp.sent
                                       THEN Status("Sent to printer ", <<>>, 0)
                                       ELSE status_var
                      /\ last' = Last("_print_selected", sp.dialog)
    /\ UNCHANGED <<call, db, label_var, values, adminvars, scrap_var, regrind_var,
                   copies_var, platform, copies_mode>>

\* the interval of a timer has passed: its thread runs _cleanup to the end
TimerFires ==
    \E k \in 1..Len(threads), fails \in CleanupFails :
       LET t == threads[k]
           c == _cleanup(0, fails, 0)
       IN  /\ t.pc = "timer"
           /\ threads' = [threads EXCEPT ![k].pc = "done"]
           /\ jobs' = [jobs EXCEPT ![t.pdf].removes = @ + c.attempts,
                                   ![t.pdf].exists = ~c.removed]
           /\ UNCHANGED <<layoutvars, dbvars, adminvars, scrap_var, regrind_var,
                          copies_var, platform, copies_mode,
                          last>>

NextPrint ==
    \/ ComboboxSelected \/ ToggleScrap \/ ToggleRegrind \/ SetCopies
    \/ PrintSelected \/ TimerFires

SpecPrint == InitPrint /\ [][NextPrint]_vars

(***************************************************************************)
(* Claims about printing.                                                  *)
(***************************************************************************)
\* every launch asked for was made and none failed
Dispatched(j) == j.rendered /\ j.found /\ j.launched >= 1 /\ j.failed = 0

TimersOf(i) == {k \in 1..Len(threads) : threads[k].pdf = i}

\* C10: a print whose dispatch succeeded has exactly one timer thread, of 25
\* seconds, for its temporary PDF, and no os.remove of the PDF is made and
\* the PDF stays while that timer has not fired; a print whose dispatch did
\* not succeed has no timer thread; there are no other threads.
C10_OneTimerPerDispatchedPrint ==
    /\ \A i \in 1..Len(jobs) :
          Cardinality(TimersOf(i)) = IF Dispatched(jobs[i]) THEN 1 ELSE 0
    /\ \A k \in 1..Len(threads) :
          /\ threads[k].pdf \in 1..Len(jobs)
          /\ threads[k].interval = 25
          /\ threads[k].pc = "timer"
             => (jobs[threads[k].pdf].removes = 0 /\ jobs[threads[k].pdf].exists)

\* C10, the case: a print of two copies was dispatched and waits for its
\* timer
C10_TimerPending ==
    \E i \in 1..Len(jobs) :
       /\ Dispatched(jobs[i]) /\ jobs[i].launched = 2
       /\ \E k \in TimersOf(i) : threads[k].pc = "timer"

\* the temporary PDF that the step made, 0 when the step made none
MadeJob == IF Len(jobs') = Len(jobs) + 1 THEN Len(jobs') ELSE 0

C12_NoExceptionEscapes ==
    last.raised = ""

(***************************************************************************)
(* Further claims about the layout engine.                                 *)
(***************************************************************************)
\* the text of the call, wrapped at size z, is no higher than the band
FitsBand(z) ==
    Len(_paragraph_lines(call.text, z, call.max_width)) * z * DESC_LINE_SPACING_PCT
        <= call.max_height

\* C13: _fit_paragraph returns a size in 28..52 and the lines wrapped at that
\* size; the size is the largest of 28..52 at which the wrapped text is no
\* higher than the band, and 28 when there is no such size.
C13_LargestFittingSize ==
    (call.fn = "_fit_paragraph" /\ call.done) =>
        /\ call.size \in MIN_DESC_FONT_SIZE..MAX_DESC_FONT_SIZE
        /\ call.lines = _paragraph_lines(call.text, call.size, call.max_width)
        /\ \A z \in (call.size + 1)..MAX_DESC_FONT_SIZE : ~FitsBand(z)
        /\ FitsBand(call.size) \/ call.size = MIN_DESC_FONT_SIZE

\* C13, the case: the size returned is neither the largest nor the floor, and
\* the text is too high for the band one size larger
C13_LargestBelowMaximum ==
    /\ call.fn = "_fit_paragraph" /\ call.done
    /\ call.size \in (MIN_DESC_FONT_SIZE + 1)..(MAX_DESC_FONT_SIZE - 1)
    /\ FitsBand(call.size) /\ ~FitsBand(call.size + 1)

\* the text of the call, set at size z, is no wider than the target width
FitsWidth(z) ==
    stringWidth(call.text, code_font_name, z) <= call.target_width * 1000

\* C14: _fit_font returns the largest size of min_size..max_size at which the
\* text is no wider than target_width, and min_size when there is no such
\* size; with max_size >= min_size the result is in min_size..max_size.
C14_LargestFittingFont ==
    (call.fn = "_fit_font" /\ call.done) =>
        /\ \A z \in (call.size + 1)..call.max_size : ~FitsWidth(z)
        /\ \/ call.size \in call.min_size..call.max_size /\ FitsWidth(call.size)
           \/ call.size = call.min_size
        /\ call.max_size >= call.min_size =>
              call.size \in call.min_size..call.max_size

\* C14, the case: the text is too wide at max_size and at the size above the
\* returned one, and fits at the returned size, which is above min_size
C14_ShrunkAboveMinimum ==
    /\ call.fn = "_fit_font" /\ call.done
    /\ call.min_size < call.size /\ call.size < call.max_size
    /\ FitsWidth(call.size) /\ ~FitsWidth(call.size + 1)

\* the margin of the host page, 0.25 inch, in the unit of the page model
HostMargin == FInt((25 * inchU) \div 100)
FEq(a, b) == FLeq(a, b) /\ FLeq(b, a)

\* best_fit in 'fit' mode, one orientation, the content being cw wide and ch high
\* in that orientation: the scaled content is inside the page minus the margin,
\* it touches the margin in one direction (no larger scale fits), and the
\* offsets leave equal space on both sides
LargestCentredFit(p, f, cw, ch) ==
    LET w == FMul(FInt(cw), f.s)
        h == FMul(FInt(ch), f.s)
    IN  /\ FLeq(w, FInt(p.avail_w)) /\ FLeq(h, FInt(p.avail_h))
        /\ FEq(w, FInt(p.avail_w)) \/ FEq(h, FInt(p.avail_h))
        /\ f.w = w /\ f.h = h
        /\ FEq(FAdd(FAdd(f.x, w), f.x), FInt(p.host_w))
        /\ FEq(FAdd(FAdd(f.y, h), f.y), FInt(p.host_h))

\* the rectangle drawn is inside the host page minus the margin
InsideMargin(p, b) ==
    /\ FLeq(HostMargin, b.x_lo) /\ FLeq(b.x_hi, FSub(FInt(p.host_w), HostMargin))
    /\ FLeq(HostMargin, b.y_lo) /\ FLeq(b.y_hi, FSub(FInt(p.host_h), HostMargin))

LoopAttempts ==
    (Max(PERSIST_PDF_SECONDS, CLEANUP_MIN_SECONDS) * HalfSecondsPerSecond
        + CLEANUP_SLEEP_HALF_SECONDS - 1) \div CLEANUP_SLEEP_HALF_SECONDS

\* C16: a timer thread fires once and ends; its run of _cleanup makes at least
\* one and at most LoopAttempts + 1 calls of os.remove (the loop up to the
\* deadline, then one last attempt); it leaves the PDF behind only after all of
\* them; it starts no thread; and once it has ended, no further os.remove of
\* that PDF is made and the thread does not run again.
C16_CleanupOnceBounded ==
    [][ /\ Len(threads') >= Len(threads)
        /\ \A k \in 1..Len(threads) :
              LET t  == threads[k]
                  t2 == threads'[k]
                  n  == jobs'[t.pdf].removes - jobs[t.pdf].removes
              IN  /\ t2.pdf = t.pdf
                  /\ t.pc = "done" =>
                        /\ t2 = t /\ n = 0
                        /\ jobs'[t.pdf].exists = jobs[t.pdf].exists
                  /\ (t.pc = "timer" /\ t2.pc # "timer") =>
                        /\ threads' = [threads EXCEPT ![k].pc = "done"]
                        /\ n \in 1..(LoopAttempts + 1)
                        /\ jobs'[t.pdf].exists => n = LoopAttempts + 1
      ]_vars

\* C16, the case: a timer thread has ended after every os.remove of its run
\* raised, and the PDF is left behind
C16_GaveUp ==
    \E k \in 1..Len(threads) :
       /\ threads[k].pc = "done"
       /\ jobs[threads[k].pdf].exists
       /\ jobs[threads[k].pdf].removes = LoopAttempts + 1

\* C17: a print that renders the label with the scrap or the regrind toggle on
\* draws a stamp below the underline of the code, at the font size of the code,
\* that reads Regrind when the regrind toggle is on and Scrap otherwise; with
\* both toggles off it draws no stamp; whatever toggles and selections came
\* before the print.
C17_StampFollowsToggles ==
    [][ (MadeJob # 0 /\ jobs'[MadeJob].rendered) =>
           LET c == pdf'.content
           IN  /\ pdf'.written
               /\ IF scrap_var \/ regrind_var
                  THEN /\ c.secondary_text = IF regrind_var THEN "Regrind" ELSE "Scrap"
                       /\ c.secondary_size = c.code_size
                       /\ c.secondary_baseline < c.underline_y
                  ELSE c.secondary_text = ""
      ]_vars

\* C17, the case: a label was printed with both toggles on and is stamped Regrind
C17_RegrindOverScrap ==
    /\ Len(jobs) >= 1 /\ jobs[Len(jobs)].rendered
    /\ last.op = "_print_selected"
    /\ scrap_var /\ regrind_var
    /\ pdf.written /\ pdf.content.secondary_text = "Regrind"

\* the width of a line in the font and at the size of the call is within max_width
LineFits(line) ==
    stringWidth(line, call.font_name, call.font_size) <= call.max_width * 1000

\* C18: _wrap_text is greedy: a returned line of two or more words is no wider
\* than max_width; for every line after the first, the line before it with a
\* space and the first word of the line appended is wider than max_width; no
\* line is empty unless the text has no words, and then the result is one
\* empty line.
C18_GreedyWrap ==
    (call.fn = "_wrap_text" /\ call.done) =>
        LET lines == call.lines
            words == split(replace_cr(call.text))
        IN  IF words = <<>>
            THEN lines = << <<>> >>
            ELSE /\ \A i \in 1..Len(lines) :
                       /\ split(lines[i]) # <<>>
                       /\ Len(split(lines[i])) >= 2 => LineFits(lines[i])
                 /\ \A i \in 2..Len(lines) :
                       ~LineFits(lines[i - 1] \o <<" ">> \o Head(split(lines[i])))

\* C18, the case: a line of two words that fits is followed by a line whose
\* first word did not fit on it
C18_FullLineThenBreak ==
    /\ call.fn = "_wrap_text" /\ call.done
    /\ Len(call.lines) >= 2
    /\ Len(split(call.lines[1])) >= 2

\* the number of copies asked for in the spinbox, clamped to at least 1
CopiesAsked ==
    IF IntVar_get(copies_var).value >= 1 THEN IntVar_get(copies_var).value ELSE 1

\* C19: a print that found the executable, for N copies (at least 1): in the
\* mode loop every launch but the last has succeeded, the launches are N when
\* the last has succeeded too and the label is then reported as sent, and a
\* failed launch is reported with the dialog and not as sent, and no Nx
\* setting is passed; in the mode nx there is exactly one launch, with the
\* setting Nx.
C19_LaunchesPerCopies ==
    [][ (MadeJob # 0 /\ jobs'[MadeJob].rendered /\ jobs'[MadeJob].found) =>
           LET j == jobs'[MadeJob]
               n == Len(j.rcs)
               sent == Len(threads') = Len(threads) + 1
           IN  /\ j.copies = CopiesAsked
               /\ n >= 1 /\ \A i \in 1..(n - 1) : j.rcs[i] = 0
               /\ j.launched = Cardinality({i \in 1..n : j.rcs[i] = 0})
               /\ IF copies_mode = "nx"
                  THEN n = 1 /\ j.setting = CopiesAsked
                  ELSE /\ j.setting = 0
                       /\ n <= CopiesAsked
                       /\ j.rcs[n] = 0 => n = CopiesAsked
               /\ sent <=> j.rcs[n] = 0
               /\ j.rcs[n] # 0 => last'.dialog = "Sumatra print failed"
      ]_vars

\* C19, the case: two copies were asked for in the mode loop, the first launch
\* succeeded and the second failed
C19_SecondLaunchFailed ==
    \E i \in 1..Len(jobs) :
       /\ copies_mode = "loop"
       /\ jobs[i].copies = 2 /\ jobs[i].rcs = <<0, 1>>

(***************************************************************************)
(* Further claims about the label store.                                   *)
(***************************************************************************)
\* C20: a confirmed delete removes the stored records whose id is among the
\* ids passed and no other; every record that stays has its id, name,
\* description and creation timestamp as before, and none is added; the number
\* reported is the number of records removed; delete_by_ids of no ids
\* removes nothing and returns 0.
C20_DeletesExactlyTheIds ==
    /\ [](delete_by_ids(db, {}) = [rowcount |-> 0, db |-> db])
    /\ [][ (last'.op = "delete_selected" /\ last'.id = 1) =>
             /\ \A r \in db.rows : (r \in db'.rows) <=> (r.id \notin last'.ids)
             /\ db'.rows \subseteq db.rows
             /\ db'.seq = db.seq
             /\ last'.skipped = Cardinality(db.rows) - Cardinality(db'.rows)
             /\ status_var' = Status("Deleted ", <<>>, last'.skipped)
       ]_vars

\* C20, the case: one of two stored records was deleted and the other stays
C20_OneOfTwoDeleted ==
    /\ last.op = "delete_selected" /\ last.id = 1
    /\ Cardinality(last.ids) = 1 /\ last.skipped = 1
    /\ Cardinality(db.rows) = 1
    /\ \A r \in db.rows : r.id \notin last.ids

\* C21, as stated: the temporary PDF of a print for which at least one print
\* process was launched stays in place, with no os.remove attempted, until the
\* timer of that print has fired; only a PDF that was given to no process is
\* removed before that.
C21_LaunchedPdfKeptUntilTimer ==
    \A i \in 1..Len(jobs) :
       (jobs[i].launched >= 1 /\ ~\E k \in TimersOf(i) : threads[k].pc = "done")
          => (jobs[i].exists /\ jobs[i].removes = 0)

\* the step completed a single add, an edit, a bulk import or a delete
Completed(l) ==
    \/ l.op = "_save_single" /\ l.dialog = "Saved"
    \/ l.op = "_save_edit_label" /\ l.dialog = "Updated"
    \/ l.op = "do_import" /\ l.dialog = "Import done"
    \/ l.op = "delete_selected" /\ l.id = 1

\* C22: after a completed single add, edit, bulk import or delete the combobox
\* offers each stored name once and no other name, in ascending order without
\* regard to case; it is set to the name it held before when that name is
\* still stored, otherwise to the first name offered, and to the empty text
\* when nothing is stored.
C22_DropdownFollowsStore ==
    [][ Completed(last') =>
           /\ {values'[i] : i \in 1..Len(values')} = NamesOf(db')
           /\ Len(values') = Cardinality(db'.rows)
           /\ \A i, j \in 1..Len(values') :
                 i < j => nocase_leq(values'[i], values'[j])
           /\ label_var' = IF label_var \in NamesOf(db') THEN label_var
                            ELSE IF db'.rows # {} THEN values'[1]
                            ELSE <<>>
      ]_vars

\* C22, the case: two names are stored after a completed step and the combobox
\* holds the second, the name it held before the step
C22_SelectionKept ==
    /\ Completed(last)
    /\ Len(values) = 2 /\ label_var = values[2] /\ label_var # values[1]

====
